---- MODULE Spec2Model ----
(***************************************************************************)
(* Fleur Fragrances backend (src/backend/server.py): the payment / order   *)
(* reconciliation flow over the document store, and the cart, wishlist,    *)
(* review, account, order and seeding routes beside it.                    *)
(*                                                                         *)
(* Every request handler is an asyncio coroutine: the code between two     *)
(* awaits runs atomically, and every awaited store or gateway call is a    *)
(* point where other handlers may run.  A handler is therefore modelled as *)
(* one action per awaited call that reads or writes shared state; the      *)
(* handlers in flight are kept in the bag `inflight` with their position   *)
(* (pc) and their local variables.                                         *)
(***************************************************************************)
EXTENDS Integers, Sequences, FiniteSets, Bags, TLC

\* ------------------------------------------------------------ bounds
\* Gateway sessions / orders created over a run (checkout initiations that
\* reach the gateway).
MaxTx == 1
\* Handlers that may be suspended at an await at the same time.
MaxInflight == 2
\* Largest quantity a cart request carries or an add is let to reach.
MaxQty == 2
\* Lines of a cart beyond which no further add is started.
MaxLines == 2
\* Reviews created over a run.
MaxReviews == 3
\* Registrations that get past the email check over a run.
MaxRegistrations == 2
\* Server processes started on the one database.
MaxWorkers == 3
\* Orders in a store that get_orders / get_order read (beside the store
\* that holds more orders of one user than get_orders returns).
MaxOrders == 3

\* ------------------------------------------------------------ values
Users == {"u1", "u2"}
\* The user who checks out in the model; u2's cart and orders must stay as
\* they are.
Buyers == {"u1"}

\* A field a document does not have (Mongo: missing / null).
Null == <<"null">>

\* Identifiers are strings, modelled as sequences so that they concatenate.
StripeRef(k) == <<"cs", k>>
RazorpayRef(k) == <<"order", k>>
PaymentIds == {<<"pay", 1>>}

\* PRODUCTS_DATA: two of the seeded products, with their prices and their
\* seeded rating (in tenths: 4.6 is 46) and reviews_count.
SeedProducts ==
    << [id |-> "prod_bleu_sport", price |-> 385,
        rating |-> 46, reviews_count |-> 89],
       [id |-> "prod_victoria_royale", price |-> 300,
        rating |-> 48, reviews_count |-> 167] >>

VARIABLES
    products,              \* db.products: sequence of documents
    carts,                 \* db.carts: sequence of {user_id, items}
    payment_transactions,  \* db.payment_transactions
    orders,                \* db.orders
    stripeSessions,        \* the Stripe side: payment_status of session k
    razorpayOrders,        \* the Razorpay side: number of orders created
    env,                   \* os.environ of the deployment
    workers,               \* the server processes on the database
    users,                 \* db.users: sequence of {id, email, password}
    wishlists,             \* db.wishlists: sequence of {user_id, product_ids}
    reviews,               \* db.reviews: sequence of {product_id, user_id, rating}
    inflight,              \* bag of handlers suspended at an await
    last                   \* the response of the handler that returned last

stores == <<products, carts, payment_transactions, orders>>
gateway == <<stripeSessions, razorpayOrders>>
deployment == <<env, workers>>
accounts == <<users, wishlists, reviews>>
vars == <<products, carts, payment_transactions, orders, stripeSessions,
          razorpayOrders, env, workers, users, wishlists, reviews, inflight,
          last>>

\* ------------------------------------------------------------ document store
\* find_one({field: value}): index of the first document of coll whose
\* field has the value, or 0.
FindOne(coll, field, value) ==
    IF \E i \in 1..Len(coll) : coll[i][field] = value
    THEN CHOOSE i \in 1..Len(coll) :
            /\ coll[i][field] = value
            /\ \A j \in 1..(i - 1) : coll[j][field] # value
    ELSE 0

\* update_one({field: value}, {"$set": set}): the fields of `set` are
\* written to the first document matching; no document matching leaves the
\* collection as it is.
UpdateOne(coll, field, value, set) ==
    LET i == FindOne(coll, field, value)
    IN  IF i = 0 THEN coll ELSE [coll EXCEPT ![i] = set @@ coll[i]]

\* Mutant: the insert replaces what the collection held.
InsertOne_Replaces(coll, doc) == <<doc>>

\* insert_one(doc)
InsertOne(coll, doc) == Append(coll, doc)

\* ------------------------------------------------------------ passwords
\* bcrypt is outside the repository: hashpw(password, salt) is a hash that
\* carries its salt, and checkpw(password, hashed) hashes the password with
\* the salt of `hashed` and compares.  gensalt() draws the salt.
Passwords == {"pw1", "pw2"}
Salts == {"salt1", "salt2"}

\* hash_password: bcrypt.hashpw of the password with the salt gensalt() drew.
hash_password(password, salt) == <<"bcrypt", salt, password>>

\* verify_password: bcrypt.checkpw.
verify_password(password, hashed) == hash_password(password, hashed[2]) = hashed

\* ------------------------------------------------------------ handlers in flight
\* What the handler that returned last answered: the status code, with the
\* detail of an HTTPException or the `status` of the body that tells the
\* outcomes of one route apart.  An exception no handler catches is answered
\* 500 Internal Server Error by the framework.
Response(result) == result

Suspend(r) == inflight (+) SetToBag({r})
Resume(r, r2) == (inflight (-) SetToBag({r})) (+) SetToBag({r2})
Return(r) == inflight (-) SetToBag({r})
CanSuspend == BagCardinality(inflight) < MaxInflight
Running == BagToSet(inflight)

\* ------------------------------------------------------------ pricing
\* The loop of create_stripe_checkout / create_razorpay_order over
\* request.items: a product found in the catalog adds price * quantity to
\* total and a line to items_details; a product not found is skipped.  No
\* handler running next to a checkout writes a price or inserts a product
\* (seeding happens on an empty catalog), so the find_one of every iteration
\* reads the same catalog and the loop is one step.
RECURSIVE PriceLoop(_, _, _)
PriceLoop(items, catalog, acc) ==
    IF items = <<>> THEN acc
    ELSE LET item == Head(items)
             i == FindOne(catalog, "id", item.product_id)
             nxt == IF i # 0
                    THEN [total |-> acc.total + catalog[i].price * item.quantity,
                          items_details |->
                              Append(acc.items_details,
                                     [product_id |-> catalog[i].id,
                                      price |-> catalog[i].price,
                                      quantity |-> item.quantity])]
                    ELSE acc
         IN  PriceLoop(Tail(items), catalog, nxt)

\* Mutant: `total += product["price"]`, the quantity forgotten.
PriceItems_IgnoresQuantity(items, catalog) ==
    LET priced == PriceLoop(items, catalog, [total |-> 0, items_details |-> <<>>])
        units == PriceLoop([i \in DOMAIN items |-> [items[i] EXCEPT !.quantity = 1]],
                           catalog, [total |-> 0, items_details |-> <<>>])
    IN  [priced EXCEPT !.total = units.total]

PriceItems(items, catalog) ==
    PriceLoop(items, catalog, [total |-> 0, items_details |-> <<>>])

\* Mutant: only a negative total is refused.
CartIsEmpty_Negative(total) == total < 0

\* `if total <= 0: raise HTTPException(400, "Cart is empty")`
CartIsEmpty(total) == total <= 0

\* Item lists a checkout request may carry (List[CartItem], any integers).
Item(p, q) == [product_id |-> p, quantity |-> q]
CheckoutItems ==
    { <<>>,
      << Item("prod_unknown", 1), Item("prod_victoria_royale", 0) >>,
      << Item("prod_bleu_sport", -1) >>,
      << Item("prod_unknown", 2), Item("prod_victoria_royale", 2) >> }

\* ------------------------------------------------------------ Stripe checkout
\* create_stripe_checkout up to and including the gateway call.
CreateStripeCheckout(user, items) ==
    LET priced == PriceItems(items, products)
    IN  \/ /\ CartIsEmpty(priced.total)
           /\ last' = Response("400 Cart is empty")
           /\ UNCHANGED <<stores, gateway, deployment, accounts, inflight>>
        \/ /\ ~CartIsEmpty(priced.total)
           \* create_checkout_session raises: the error reaches the caller
           /\ last' = Response("500 Internal Server Error")
           /\ UNCHANGED <<stores, gateway, deployment, accounts, inflight>>
        \/ /\ ~CartIsEmpty(priced.total)
           /\ Len(stripeSessions) + razorpayOrders < MaxTx
           /\ CanSuspend
           /\ stripeSessions' = Append(stripeSessions, "unpaid")
           /\ inflight' = Suspend([op |-> "create_stripe_checkout",
                                   pc |-> "insert_transaction",
                                   user_id |-> user,
                                   session_id |-> StripeRef(Len(stripeSessions) + 1),
                                   total |-> priced.total,
                                   items_details |-> priced.items_details])
           /\ UNCHANGED <<stores, razorpayOrders, deployment, accounts, last>>

\* Mutant: the transaction is written for a session the gateway has yet to
\* create.
StripeTransaction_BeforeSession(r) ==
    [session_id |-> StripeRef(Len(stripeSessions) + 1),
     razorpay_order_id |-> Null,
     razorpay_payment_id |-> Null,
     user_id |-> r.user_id,
     amount |-> r.total,
     payment_method |-> "stripe",
     payment_status |-> "pending",
     items |-> r.items_details]

\* The transaction document create_stripe_checkout inserts.
StripeTransaction(r) ==
    [session_id |-> r.session_id,
     razorpay_order_id |-> Null,
     razorpay_payment_id |-> Null,
     user_id |-> r.user_id,
     amount |-> r.total,
     payment_method |-> "stripe",
     payment_status |-> "pending",
     items |-> r.items_details]

\* create_stripe_checkout: db.payment_transactions.insert_one, then return.
StripeInsertTransaction(r) ==
    /\ r.op = "create_stripe_checkout" /\ r.pc = "insert_transaction"
    /\ payment_transactions' = InsertOne(payment_transactions, StripeTransaction(r))
    /\ inflight' = Return(r)
    /\ last' = Response("200")
    /\ UNCHANGED <<products, carts, orders, gateway, deployment, accounts>>

\* ------------------------------------------------------------ poll
\* Session ids a caller may poll: those Stripe created and one it never did.
StripeRefs == {StripeRef(k) : k \in 1..(MaxTx + 1)}
StripeKnows(session_id) ==
    \E k \in 1..Len(stripeSessions) : session_id = StripeRef(k)
StripeStatus(session_id) ==
    stripeSessions[CHOOSE k \in 1..Len(stripeSessions) : session_id = StripeRef(k)]

\* Mutant: the poll reconciles whatever the gateway reports.
PollSeesPaid_Always(payment_status) == TRUE

\* `if status.payment_status == "paid"`
PollSeesPaid(payment_status) == payment_status = "paid"

\* `if transaction and transaction.get("payment_status") != "paid"`, on the
\* index find_one returned (0: no document).
StillToReconcile(coll, i) == i # 0 /\ coll[i].payment_status # "paid"

\* `{"$set": {"payment_status": "paid", ...}}` (updated_at is not modelled).
SetPaid == [payment_status |-> "paid"]

\* Mutant: the order is totalled with the prices of the catalog as it is
\* when the order is built.
StripeOrder_CurrentPrices(r) ==
    [user_id |-> r.transaction.user_id,
     items |-> r.transaction.items,
     total_amount |-> PriceItems(r.transaction.items, products).total,
     payment_method |-> "stripe",
     payment_status |-> "paid",
     payment_session_id |-> r.session_id,
     razorpay_order_id |-> Null,
     razorpay_payment_id |-> Null,
     order_status |-> "confirmed"]

\* The order document get_checkout_status inserts, from its local
\* `transaction`.
StripeOrder(r) ==
    [user_id |-> r.transaction.user_id,
     items |-> r.transaction.items,
     total_amount |-> r.transaction.amount,
     payment_method |-> "stripe",
     payment_status |-> "paid",
     payment_session_id |-> r.session_id,
     razorpay_order_id |-> Null,
     razorpay_payment_id |-> Null,
     order_status |-> "confirmed"]

\* `{"$set": {"items": []}}`
ClearItems == [items |-> <<>>]

\* get_checkout_status: the gateway call and, when it reports paid, the
\* find_one of the transaction.  The gateway's payment_status only ever goes
\* from unpaid to paid, so reading it in the step of the find_one loses no
\* behaviour.
GetCheckoutStatus(session_id) ==
    \/ \* get_checkout_status of the adapter raises (unknown session, outage)
       /\ last' = Response("500 Internal Server Error")
       /\ UNCHANGED <<stores, gateway, deployment, accounts, inflight>>
    \/ /\ StripeKnows(session_id)
       /\ LET payment_status == StripeStatus(session_id)
              i == FindOne(payment_transactions, "session_id", session_id)
          IN  IF PollSeesPaid(payment_status)
                 /\ StillToReconcile(payment_transactions, i)
              THEN /\ CanSuspend
                   /\ inflight' = Suspend([op |-> "get_checkout_status",
                                           pc |-> "update_transaction",
                                           session_id |-> session_id,
                                           payment_status |-> payment_status,
                                           transaction |-> payment_transactions[i]])
                   /\ UNCHANGED last
              ELSE /\ last' = Response("200")
                   /\ UNCHANGED inflight
       /\ UNCHANGED <<stores, gateway, deployment, accounts>>

\* get_checkout_status: db.payment_transactions.update_one by session_id.
PollUpdateTransaction(r) ==
    /\ r.op = "get_checkout_status" /\ r.pc = "update_transaction"
    /\ payment_transactions' =
          UpdateOne(payment_transactions, "session_id", r.session_id, SetPaid)
    /\ inflight' = Resume(r, [r EXCEPT !.pc = "insert_order"])
    /\ UNCHANGED <<products, carts, orders, gateway, deployment, accounts, last>>

\* Mutant: the handler goes on to clear the cart with no order inserted.
PollInsertOrder_Skips(r) ==
    /\ r.op = "get_checkout_status" /\ r.pc = "insert_order"
    /\ inflight' = Resume(r, [r EXCEPT !.pc = "clear_cart"])
    /\ UNCHANGED <<stores, gateway, deployment, accounts, last>>

\* get_checkout_status: db.orders.insert_one.
PollInsertOrder(r) ==
    /\ r.op = "get_checkout_status" /\ r.pc = "insert_order"
    /\ orders' = InsertOne(orders, StripeOrder(r))
    /\ inflight' = Resume(r, [r EXCEPT !.pc = "clear_cart"])
    /\ UNCHANGED <<products, carts, payment_transactions, gateway, deployment, accounts, last>>

\* get_checkout_status: db.carts.update_one of the transaction's user, then
\* return.
PollClearCart(r) ==
    /\ r.op = "get_checkout_status" /\ r.pc = "clear_cart"
    /\ carts' = UpdateOne(carts, "user_id", r.transaction.user_id, ClearItems)
    /\ inflight' = Return(r)
    /\ last' = Response("200")
    /\ UNCHANGED <<products, payment_transactions, orders, gateway, deployment, accounts>>

\* ------------------------------------------------------------ webhook
\* The adapter's handle_webhook is outside the repository.  Stripe signs the
\* raw body with the endpoint secret; the adapter returns the event's
\* session_id and payment_status when the signature is the one of the body,
\* and raises otherwise.
StripeSign(body) == <<"whsec", body.session_id, body.payment_status>>
WebhookBody(session_id, payment_status) ==
    [session_id |-> session_id, payment_status |-> payment_status]
HandleWebhook(body, signature) ==
    IF signature = StripeSign(body)
    THEN [raised |-> FALSE, session_id |-> body.session_id,
          payment_status |-> body.payment_status]
    ELSE [raised |-> TRUE]

\* Events Stripe itself sends: about a session it created, and reporting
\* paid only once the session is paid.  An unpaid event may be delivered
\* late, after the payment.
StripeEvents ==
    { WebhookBody(StripeRef(k), ps) :
        k \in 1..Len(stripeSessions), ps \in {"unpaid", "paid"} }
StripeSent(body) ==
    /\ body \in StripeEvents
    /\ body.payment_status = "paid" => StripeStatus(body.session_id) = "paid"

\* What anyone can post: any body, with no signature header (""), or with
\* the signature of another body.
WebhookBodies ==
    { WebhookBody(s, ps) : s \in StripeRefs, ps \in {"unpaid", "paid"} }
ForgedSignatures(body) ==
    { <<>>,
      StripeSign(WebhookBody(body.session_id,
                             IF body.payment_status = "paid"
                             THEN "unpaid" ELSE "paid")) }

\* `if webhook_response.payment_status == "paid"`
WebhookSeesPaid(payment_status) == payment_status = "paid"

\* Mutant: the webhook writes the event's status through to the transaction.
WebhookUpdate_CopiesStatus(coll, webhook_response) ==
    UpdateOne(coll, "session_id", webhook_response.session_id,
              [payment_status |->
                  IF webhook_response.payment_status = "paid"
                  THEN "paid" ELSE "pending"])

\* The update of stripe_webhook on the transactions, for the adapter's
\* response.
WebhookUpdate(coll, webhook_response) ==
    IF WebhookSeesPaid(webhook_response.payment_status)
    THEN UpdateOne(coll, "session_id", webhook_response.session_id, SetPaid)
    ELSE coll

\* `return {"status": "processed"}` and, in the except branch,
\* `return {"status": "error"}`: both are answered 200.
WebhookProcessed == Response("200 processed")
\* Mutant: the except branch answers like the try branch.
WebhookError_Processed == Response("200 processed")
WebhookError == Response("200 error")

\* stripe_webhook.  Only the update_one touches shared state, so the handler
\* is one step.
StripeWebhook(body, signature) ==
    LET webhook_response == HandleWebhook(body, signature)
    IN  /\ IF webhook_response.raised
           THEN \* except Exception: logged, nothing written
                /\ last' = WebhookError
                /\ UNCHANGED payment_transactions
           ELSE /\ payment_transactions' =
                      WebhookUpdate(payment_transactions, webhook_response)
                /\ last' = WebhookProcessed
        /\ UNCHANGED <<products, carts, orders, gateway, deployment, accounts, inflight>>

\* ------------------------------------------------------------ Razorpay checkout
\* os.environ.get("RAZORPAY_KEY_ID") / ("RAZORPAY_KEY_SECRET"): set, or None.
Environments ==
    { [RAZORPAY_KEY_ID |-> <<"rzp_key">>, RAZORPAY_KEY_SECRET |-> <<"rzp_secret">>],
      [RAZORPAY_KEY_ID |-> Null, RAZORPAY_KEY_SECRET |-> Null] }

\* `if not razorpay_key or not razorpay_secret`
RazorpayNotConfigured(e) ==
    e.RAZORPAY_KEY_ID = Null \/ e.RAZORPAY_KEY_SECRET = Null

\* create_razorpay_order up to and including client_rp.order.create.
CreateRazorpayOrder(user, items) ==
    LET priced == PriceItems(items, products)
    IN  \/ /\ RazorpayNotConfigured(env)
           /\ last' = Response("500 Razorpay not configured")
           /\ UNCHANGED <<stores, gateway, deployment, accounts, inflight>>
        \/ /\ ~RazorpayNotConfigured(env)
           /\ CartIsEmpty(priced.total)
           /\ last' = Response("400 Cart is empty")
           /\ UNCHANGED <<stores, gateway, deployment, accounts, inflight>>
        \/ /\ ~RazorpayNotConfigured(env)
           /\ ~CartIsEmpty(priced.total)
           \* client_rp.order.create raises: the error reaches the caller
           /\ last' = Response("500 Internal Server Error")
           /\ UNCHANGED <<stores, gateway, deployment, accounts, inflight>>
        \/ /\ ~RazorpayNotConfigured(env)
           /\ ~CartIsEmpty(priced.total)
           /\ Len(stripeSessions) + razorpayOrders < MaxTx
           /\ CanSuspend
           /\ razorpayOrders' = razorpayOrders + 1
           /\ inflight' = Suspend([op |-> "create_razorpay_order",
                                   pc |-> "insert_transaction",
                                   user_id |-> user,
                                   razorpay_order_id |-> RazorpayRef(razorpayOrders + 1),
                                   total |-> priced.total,
                                   items_details |-> priced.items_details])
           /\ UNCHANGED <<stores, stripeSessions, deployment, accounts, last>>

\* The transaction document create_razorpay_order inserts.
RazorpayTransaction(r) ==
    [session_id |-> Null,
     razorpay_order_id |-> r.razorpay_order_id,
     razorpay_payment_id |-> Null,
     user_id |-> r.user_id,
     amount |-> r.total,
     payment_method |-> "razorpay",
     payment_status |-> "pending",
     items |-> r.items_details]

\* create_razorpay_order: db.payment_transactions.insert_one, then return.
RazorpayInsertTransaction(r) ==
    /\ r.op = "create_razorpay_order" /\ r.pc = "insert_transaction"
    /\ payment_transactions' = InsertOne(payment_transactions, RazorpayTransaction(r))
    /\ inflight' = Return(r)
    /\ last' = Response("200")
    /\ UNCHANGED <<products, carts, orders, gateway, deployment, accounts>>

\* ------------------------------------------------------------ client proof
\* hmac.new(secret, msg, sha256).hexdigest(): the digest is determined by the
\* key and the message, and distinct (key, message) pairs give distinct
\* digests (no collisions are modelled).
HmacSha256Hex(key, msg) == <<"hmac_sha256", key, msg>>

\* f"{razorpay_order_id}|{razorpay_payment_id}"
ProofMessage(razorpay_order_id, razorpay_payment_id) ==
    razorpay_order_id \o <<"|">> \o razorpay_payment_id

\* Mutant: the comparison is skipped.
SignatureMismatch_Never(generated_signature, razorpay_signature) == FALSE

\* `if generated_signature != razorpay_signature`
SignatureMismatch(generated_signature, razorpay_signature) ==
    generated_signature # razorpay_signature

\* Order ids a caller may submit: those Razorpay created and one it never did.
RazorpayRefs == {RazorpayRef(k) : k \in 1..(MaxTx + 1)}

\* Signatures a caller may submit for (order, payment): the gateway's, one
\* made with another key, the gateway's for another order, and none.  (A
\* request without the parameter is rejected by the framework before the
\* handler runs.)
ProofSignatures(order_id, payment_id) ==
    { HmacSha256Hex(<<"rzp_secret">>, ProofMessage(order_id, payment_id)),
      HmacSha256Hex(<<"other_secret">>, ProofMessage(order_id, payment_id)),
      HmacSha256Hex(<<"rzp_secret">>, ProofMessage(RazorpayRef(0), payment_id)),
      <<>> }

\* `{"$set": {"payment_status": "paid", "razorpay_payment_id": ...}}`
SetPaidRazorpay(razorpay_payment_id) ==
    [payment_status |-> "paid", razorpay_payment_id |-> razorpay_payment_id]

\* The order document verify_razorpay_payment inserts.
RazorpayOrder(r) ==
    [user_id |-> r.transaction.user_id,
     items |-> r.transaction.items,
     total_amount |-> r.transaction.amount,
     payment_method |-> "razorpay",
     payment_status |-> "paid",
     payment_session_id |-> Null,
     razorpay_order_id |-> r.razorpay_order_id,
     razorpay_payment_id |-> r.razorpay_payment_id,
     order_status |-> "confirmed"]

VerifyRequest(order_id, payment_id, signature) ==
    [op |-> "verify_razorpay_payment", razorpay_order_id |-> order_id,
     razorpay_payment_id |-> payment_id, razorpay_signature |-> signature]

\* verify_razorpay_payment: the signature check and the find_one of the
\* transaction.
VerifyRazorpayPayment(order_id, payment_id, signature) ==
    LET req == VerifyRequest(order_id, payment_id, signature)
    IN  \/ \* razorpay_secret is None: razorpay_secret.encode() raises
           /\ env.RAZORPAY_KEY_SECRET = Null
           /\ last' = Response("500 Internal Server Error")
           /\ UNCHANGED <<stores, gateway, deployment, accounts, inflight>>
        \/ /\ env.RAZORPAY_KEY_SECRET # Null
           /\ LET generated_signature ==
                      HmacSha256Hex(env.RAZORPAY_KEY_SECRET,
                                    ProofMessage(order_id, payment_id))
                  i == FindOne(payment_transactions, "razorpay_order_id", order_id)
              IN  IF SignatureMismatch(generated_signature, signature)
                  THEN /\ last' = Response("400 Invalid payment signature")
                       /\ UNCHANGED inflight
                  ELSE IF StillToReconcile(payment_transactions, i)
                  THEN /\ CanSuspend
                       /\ inflight' = Suspend(req @@
                              [pc |-> "update_transaction",
                               transaction |-> payment_transactions[i]])
                       /\ UNCHANGED last
                  ELSE /\ last' = Response("200 success")
                       /\ UNCHANGED inflight
           /\ UNCHANGED <<stores, gateway, deployment, accounts>>

\* verify_razorpay_payment: db.payment_transactions.update_one by order id.
VerifyUpdateTransaction(r) ==
    /\ r.op = "verify_razorpay_payment" /\ r.pc = "update_transaction"
    /\ payment_transactions' =
          UpdateOne(payment_transactions, "razorpay_order_id",
                    r.razorpay_order_id, SetPaidRazorpay(r.razorpay_payment_id))
    /\ inflight' = Resume(r, [r EXCEPT !.pc = "insert_order"])
    /\ UNCHANGED <<products, carts, orders, gateway, deployment, accounts, last>>

\* verify_razorpay_payment: db.orders.insert_one.
VerifyInsertOrder(r) ==
    /\ r.op = "verify_razorpay_payment" /\ r.pc = "insert_order"
    /\ orders' = InsertOne(orders, RazorpayOrder(r))
    /\ inflight' = Resume(r, [r EXCEPT !.pc = "clear_cart"])
    /\ UNCHANGED <<products, carts, payment_transactions, gateway, deployment, accounts, last>>

\* verify_razorpay_payment: db.carts.update_one, then return.
VerifyClearCart(r) ==
    /\ r.op = "verify_razorpay_payment" /\ r.pc = "clear_cart"
    /\ carts' = UpdateOne(carts, "user_id", r.transaction.user_id, ClearItems)
    /\ inflight' = Return(r)
    /\ last' = Response("200 success")
    /\ UNCHANGED <<products, payment_transactions, orders, gateway, deployment, accounts>>

\* ------------------------------------------------------------ cart
\* Products a cart request may name (add_to_cart does not look the product
\* up) and quantities it may carry (CartItem.quantity: any int).
CartProducts == {"prod_victoria_royale", "prod_bleu_sport"}
CartQuantities == (0 - 1)..MaxQty

\* Mutant: the filter on the owner is dropped.
OwnCart_First(coll, user) == IF Len(coll) > 0 THEN 1 ELSE 0

\* The document {"user_id": user} selects: the first cart of the user, or 0.
OwnCart(coll, user) == FindOne(coll, "user_id", user)

\* The items hold a line for the product.
HasLine(items, product_id) ==
    \E n \in DOMAIN items : items[n].product_id = product_id

\* Position of the first line for the product, as the positional `$`
\* resolves it.
FirstLine(items, product_id) ==
    CHOOSE n \in DOMAIN items :
        /\ items[n].product_id = product_id
        /\ \A m \in 1..(n - 1) : items[m].product_id # product_id

\* The document {"user_id": user, "items.product_id": product_id} selects:
\* the first cart of the user that holds a line for the product, or 0.
OwnCartWithLine(coll, user, product_id) ==
    IF \E i \in DOMAIN coll :
          coll[i].user_id = user /\ HasLine(coll[i].items, product_id)
    THEN CHOOSE i \in DOMAIN coll :
            /\ coll[i].user_id = user /\ HasLine(coll[i].items, product_id)
            /\ \A j \in 1..(i - 1) :
                  ~(coll[j].user_id = user /\ HasLine(coll[j].items, product_id))
    ELSE 0

\* Mutant: the quantity is overwritten, not added to.
IncQuantity_Sets(items, product_id, quantity) ==
    [items EXCEPT ![FirstLine(items, product_id)].quantity = quantity]

\* {"$inc": {"items.$.quantity": quantity}}
IncQuantity(items, product_id, quantity) ==
    [items EXCEPT ![FirstLine(items, product_id)].quantity = @ + quantity]

\* {"$set": {"items.$.quantity": quantity}}
SetQuantity(items, product_id, quantity) ==
    [items EXCEPT ![FirstLine(items, product_id)].quantity = quantity]

\* {"$push": {"items": {"product_id": ..., "quantity": ...}}}
Push(items, product_id, quantity) ==
    Append(items, Item(product_id, quantity))

\* Mutant: nothing is pulled.
Pull_Nothing(items, product_id) == items

\* {"$pull": {"items": {"product_id": product_id}}}: every line for the
\* product is removed.
RECURSIVE Pull(_, _)
Pull(items, product_id) ==
    IF items = <<>> THEN <<>>
    ELSE IF Head(items).product_id = product_id
         THEN Pull(Tail(items), product_id)
         ELSE <<Head(items)>> \o Pull(Tail(items), product_id)

\* The collection with the items of document i replaced; no document
\* selected (i = 0) leaves it as it is.
WithItems(coll, i, items) ==
    IF i = 0 THEN coll ELSE [coll EXCEPT ![i].items = items]

\* Mutant: only a negative quantity removes the line.
UpdateRemoves_Negative(quantity) == quantity < 0

\* `if item.quantity <= 0`
UpdateRemoves(quantity) == quantity <= 0

\* The branch add_to_cart takes for the cart find_one returned.
AddBranch(coll, i, product_id) ==
    IF i = 0 THEN "insert_cart"
    ELSE IF HasLine(coll[i].items, product_id) THEN "inc_quantity"
    ELSE "push_item"

Abs(n) == IF n < 0 THEN 0 - n ELSE n

\* What the suspended adds of S may still add to a quantity.
RECURSIVE PendingQuantity(_)
PendingQuantity(S) ==
    IF S = {} THEN 0
    ELSE LET r == CHOOSE x \in S : TRUE
         IN  (IF r.op = "add_to_cart"
              THEN CopiesIn(r, inflight) * Abs(r.item.quantity) ELSE 0)
             + PendingQuantity(S \ {r})

\* An add is started only while the cart stays within the bounds of the
\* model whatever the suspended adds go on to write: at most MaxLines lines,
\* quantities within -MaxQty..MaxQty.
AddWithinBounds(coll, i, item) ==
    IF i = 0 THEN TRUE
    ELSE /\ \A j \in DOMAIN coll :
              (coll[j].user_id = coll[i].user_id
                  /\ HasLine(coll[j].items, item.product_id)) =>
                  Abs(coll[j].items[FirstLine(coll[j].items, item.product_id)].quantity)
                      + PendingQuantity(Running) + Abs(item.quantity) <= MaxQty
         /\ \/ HasLine(coll[i].items, item.product_id)
            \/ Len(coll[i].items) + BagCardinality(inflight) < MaxLines

\* add_to_cart: db.carts.find_one and the choice of the branch.
AddToCart(user, item) ==
    LET i == OwnCart(carts, user)
    IN  /\ CanSuspend
        /\ AddWithinBounds(carts, i, item)
        /\ inflight' = Suspend([op |-> "add_to_cart",
                                pc |-> AddBranch(carts, i, item.product_id),
                                user_id |-> user,
                                item |-> item])
        /\ UNCHANGED <<stores, gateway, deployment, accounts, last>>

\* add_to_cart, `if not cart`: db.carts.insert_one, then return.
AddInsertCart(r) ==
    /\ r.op = "add_to_cart" /\ r.pc = "insert_cart"
    /\ carts' = InsertOne(carts, [user_id |-> r.user_id,
                                  items |-> <<Item(r.item.product_id,
                                                   r.item.quantity)>>])
    /\ inflight' = Return(r)
    /\ last' = Response("200 Item added to cart")
    /\ UNCHANGED <<products, payment_transactions, orders, gateway, deployment, accounts>>

\* add_to_cart, `if existing`: db.carts.update_one with $inc, then return.
AddIncQuantity(r) ==
    /\ r.op = "add_to_cart" /\ r.pc = "inc_quantity"
    /\ LET i == OwnCartWithLine(carts, r.user_id, r.item.product_id)
       IN  carts' = WithItems(carts, i,
                              IF i = 0 THEN <<>>
                              ELSE IncQuantity(carts[i].items, r.item.product_id,
                                               r.item.quantity))
    /\ inflight' = Return(r)
    /\ last' = Response("200 Item added to cart")
    /\ UNCHANGED <<products, payment_transactions, orders, gateway, deployment, accounts>>

\* add_to_cart, else: db.carts.update_one with $push, then return.
AddPushItem(r) ==
    /\ r.op = "add_to_cart" /\ r.pc = "push_item"
    /\ LET i == OwnCart(carts, r.user_id)
       IN  carts' = WithItems(carts, i,
                              IF i = 0 THEN <<>>
                              ELSE Push(carts[i].items, r.item.product_id,
                                        r.item.quantity))
    /\ inflight' = Return(r)
    /\ last' = Response("200 Item added to cart")
    /\ UNCHANGED <<products, payment_transactions, orders, gateway, deployment, accounts>>

\* update_cart_item: one update_one, then return.
UpdateCartItem(user, item) ==
    /\ IF UpdateRemoves(item.quantity)
       THEN LET i == OwnCart(carts, user)
            IN  carts' = WithItems(carts, i,
                                   IF i = 0 THEN <<>>
                                   ELSE Pull(carts[i].items, item.product_id))
       ELSE LET i == OwnCartWithLine(carts, user, item.product_id)
            IN  carts' = WithItems(carts, i,
                                   IF i = 0 THEN <<>>
                                   ELSE SetQuantity(carts[i].items, item.product_id,
                                                    item.quantity))
    /\ last' = Response("200 Cart updated")
    /\ UNCHANGED <<products, payment_transactions, orders, gateway, deployment,
                   accounts, inflight>>

\* remove_from_cart: one update_one with $pull, then return.
RemoveFromCart(user, product_id) ==
    /\ LET i == OwnCart(carts, user)
       IN  carts' = WithItems(carts, i,
                              IF i = 0 THEN <<>>
                              ELSE Pull(carts[i].items, product_id))
    /\ last' = Response("200 Item removed from cart")
    /\ UNCHANGED <<products, payment_transactions, orders, gateway, deployment,
                   accounts, inflight>>

\* clear_cart: one update_one with {"$set": {"items": []}}, then return.
ClearCart(user) ==
    /\ carts' = UpdateOne(carts, "user_id", user, ClearItems)
    /\ last' = Response("200 Cart cleared")
    /\ UNCHANGED <<products, payment_transactions, orders, gateway, deployment,
                   accounts, inflight>>

\* ------------------------------------------------------------ reviews
\* Products a review may name (create_review does not look the product up)
\* and ratings it may carry (ReviewCreate.rating: int).
ReviewProducts == {"prod_victoria_royale", "prod_bleu_sport", "prod_unknown"}
Ratings == {1, 4, 5}

\* The ratings of the reviews of a product, in the order of the collection:
\* db.reviews.find({"product_id": ...}).to_list(1000).
RECURSIVE RatingsOf(_, _)
RatingsOf(coll, product_id) ==
    IF coll = <<>> THEN <<>>
    ELSE IF Head(coll).product_id = product_id
         THEN <<Head(coll).rating>> \o RatingsOf(Tail(coll), product_id)
         ELSE RatingsOf(Tail(coll), product_id)

\* sum(r["rating"] for r in reviews)
RECURSIVE Sum(_)
Sum(ratings) ==
    IF ratings = <<>> THEN 0 ELSE Head(ratings) + Sum(Tail(ratings))

\* Mutant: the mean is cut to a tenth, not rounded.
RoundedMean_Truncates(sum, n) ==
    IF n = 0 THEN 0 ELSE (10 * sum) \div n

\* round(sum / n, 1) if n else 0, in tenths.  Python rounds the float to
\* the nearest tenth and a tie to the even one; a mean of fewer than 20
\* integers that lies half-way between two tenths is a multiple of 1/4, which
\* the float holds exactly, so the tie is the mean's own.
RoundedMean(sum, n) ==
    IF n = 0 THEN 0
    ELSE LET q == (10 * sum) \div n
             rem == (10 * sum) % n
         IN  IF 2 * rem < n THEN q
             ELSE IF 2 * rem > n THEN q + 1
             ELSE IF q % 2 = 0 THEN q ELSE q + 1

\* {"$set": {"rating": round(avg_rating, 1), "reviews_count": len(reviews)}}
SetRating(ratings) ==
    [rating |-> RoundedMean(Sum(ratings), Len(ratings)),
     reviews_count |-> Len(ratings)]

\* create_review: db.reviews.insert_one.
CreateReview(user, product_id, rating) ==
    /\ Len(reviews) < MaxReviews
    /\ CanSuspend
    /\ reviews' = InsertOne(reviews, [product_id |-> product_id,
                                      user_id |-> user, rating |-> rating])
    /\ inflight' = Suspend([op |-> "create_review", pc |-> "find_reviews",
                            user_id |-> user, product_id |-> product_id])
    /\ UNCHANGED <<stores, gateway, deployment, users, wishlists, last>>

\* create_review: db.reviews.find of the product's reviews.
ReviewFindReviews(r) ==
    /\ r.op = "create_review" /\ r.pc = "find_reviews"
    /\ inflight' = Resume(r, [op |-> "create_review", pc |-> "update_product",
                              user_id |-> r.user_id,
                              product_id |-> r.product_id,
                              reviews |-> RatingsOf(reviews, r.product_id)])
    /\ UNCHANGED <<stores, gateway, deployment, accounts, last>>

\* create_review: db.products.update_one, then return.
ReviewUpdateProduct(r) ==
    /\ r.op = "create_review" /\ r.pc = "update_product"
    /\ products' = UpdateOne(products, "id", r.product_id, SetRating(r.reviews))
    /\ inflight' = Return(r)
    /\ last' = Response("200 Review created")
    /\ UNCHANGED <<carts, payment_transactions, orders, gateway, deployment, accounts>>

\* ------------------------------------------------------------ registration
\* Emails a registration may carry: one of a registered user, and new ones.
Emails == {"u1@example.com", "a@example.com", "b@example.com", "c@example.com"}

\* str(uuid.uuid4()): an id no user document and no running registration
\* has, the k-th of the run.
UserId(k) == "user_" \o ToString(k)
UserIdsInUse ==
    {users[i].id : i \in DOMAIN users}
        \cup {r.id : r \in {x \in Running : x.op = "register"}}
NewUserId ==
    UserId(CHOOSE k \in 1..MaxRegistrations :
              /\ UserId(k) \notin UserIdsInUse
              /\ \A j \in 1..(k - 1) : UserId(j) \in UserIdsInUse)

\* Mutant: the check of the email is skipped.
EmailRegistered_Never(coll, email) == FALSE

\* `existing = await db.users.find_one({"email": user.email}); if existing`
EmailRegistered(coll, email) == FindOne(coll, "email", email) # 0

\* register: db.users.find_one by email, and the user document with the
\* hash of the password.
Register(email) ==
    IF EmailRegistered(users, email)
    THEN /\ last' = Response("400 Email already registered")
         /\ UNCHANGED <<stores, gateway, deployment, accounts, inflight>>
    ELSE /\ \E k \in 1..MaxRegistrations : UserId(k) \notin UserIdsInUse
         /\ CanSuspend
         /\ \E password \in Passwords, salt \in Salts :
               inflight' = Suspend([op |-> "register", pc |-> "insert_user",
                                    id |-> NewUserId, email |-> email,
                                    password |-> hash_password(password, salt)])
         /\ UNCHANGED <<stores, gateway, deployment, accounts, last>>

\* register: db.users.insert_one.
RegisterInsertUser(r) ==
    /\ r.op = "register" /\ r.pc = "insert_user"
    /\ users' = InsertOne(users, [id |-> r.id, email |-> r.email,
                                   password |-> r.password])
    /\ inflight' = Resume(r, [r EXCEPT !.pc = "insert_cart"])
    /\ UNCHANGED <<stores, gateway, deployment, wishlists, reviews, last>>

\* register: db.carts.insert_one of the empty cart.
RegisterInsertCart(r) ==
    /\ r.op = "register" /\ r.pc = "insert_cart"
    /\ carts' = InsertOne(carts, [user_id |-> r.id, items |-> <<>>])
    /\ inflight' = Resume(r, [r EXCEPT !.pc = "insert_wishlist"])
    /\ UNCHANGED <<products, payment_transactions, orders, gateway, deployment,
                   accounts, last>>

\* register: db.wishlists.insert_one of the empty wishlist, then return
\* with the token.
RegisterInsertWishlist(r) ==
    /\ r.op = "register" /\ r.pc = "insert_wishlist"
    /\ wishlists' = InsertOne(wishlists, [user_id |-> r.id, product_ids |-> <<>>])
    /\ inflight' = Return(r)
    /\ last' = Response("200 registered")
    /\ UNCHANGED <<stores, gateway, deployment, users, reviews>>

\* ------------------------------------------------------------ login
\* create_token / jwt.decode: the token carries the user's id.
create_token(user_id) == "token " \o user_id

\* login: db.users.find_one by email, the check of the password, and the
\* answer.  It writes nothing.
Login(email, password) ==
    LET i == FindOne(users, "email", email)
    IN  /\ last' = IF i = 0 \/ ~verify_password(password, users[i].password)
                   THEN Response("401 Invalid email or password")
                   ELSE Response("200 " \o create_token(users[i].id))
        /\ UNCHANGED <<stores, gateway, deployment, accounts, inflight>>

\* ------------------------------------------------------------ seeding
\* Server processes of the deployment.  A process serves requests once its
\* startup_event has returned.
Workers == 1..MaxWorkers

\* startup_event: db.products.count_documents({}) and `if count == 0`.
StartupEvent(w) ==
    /\ workers[w] = "down"
    /\ IF Len(products) = 0
       THEN /\ workers' = [workers EXCEPT ![w] = "starting"]
            /\ inflight' = Suspend([op |-> "startup_event", pc |-> "insert_many",
                                    worker |-> w])
       ELSE /\ workers' = [workers EXCEPT ![w] = "serving"]
            /\ UNCHANGED inflight
    /\ UNCHANGED <<stores, gateway, env, accounts, last>>

\* seed_data: db.products.count_documents({}) and `if count > 0`, in a
\* process that serves requests.
SeedData(w) ==
    /\ workers[w] = "serving"
    /\ IF Len(products) > 0
       THEN /\ last' = Response("200 Data already seeded")
            /\ UNCHANGED inflight
       ELSE /\ inflight' = Suspend([op |-> "seed_data", pc |-> "insert_many",
                                    worker |-> w])
            /\ UNCHANGED last
    /\ UNCHANGED <<stores, gateway, deployment, accounts>>

\* db.products.insert_many(PRODUCTS_DATA) of startup_event or seed_data,
\* and the return: the process starts to serve, or the request is answered.
InsertMany(r) ==
    /\ r.pc = "insert_many"
    /\ products' = products \o SeedProducts
    /\ inflight' = Return(r)
    /\ IF r.op = "startup_event"
       THEN /\ workers' = [workers EXCEPT ![r.worker] = "serving"]
            /\ UNCHANGED last
       ELSE /\ last' = Response("200 Data seeded successfully")
            /\ UNCHANGED workers
    /\ UNCHANGED <<carts, payment_transactions, orders, gateway, env, accounts>>

\* A process that serves is stopped (a deployment, a restart).
Shutdown(w) ==
    /\ workers[w] = "serving"
    /\ workers' = [workers EXCEPT ![w] = "down"]
    /\ UNCHANGED <<stores, gateway, env, accounts, inflight, last>>

\* ------------------------------------------------------------ wishlist
\* Product ids a wishlist request may carry (the routes do not look the
\* product up).
WishlistProducts == {"prod_victoria_royale", "prod_bleu_sport", "prod_unknown"}

\* Mutant: $push in the place of $addToSet.
AddToSet_Pushes(product_ids, product_id) == Append(product_ids, product_id)

\* {"$addToSet": {"product_ids": product_id}}
AddToSet(product_ids, product_id) ==
    IF \E i \in DOMAIN product_ids : product_ids[i] = product_id
    THEN product_ids
    ELSE Append(product_ids, product_id)

\* {"$pull": {"product_ids": product_id}}: every occurrence is removed.
PullValue(product_ids, product_id) ==
    LET Other(p) == p # product_id
    IN  SelectSeq(product_ids, Other)

\* add_to_wishlist: update_one on the user's wishlist with upsert=True, which
\* inserts the wishlist when the user has none.
AddToWishlist(user, product_id) ==
    LET i == FindOne(wishlists, "user_id", user)
    IN  /\ wishlists' =
              IF i = 0
              THEN InsertOne(wishlists,
                             [user_id |-> user,
                              product_ids |-> AddToSet(<<>>, product_id)])
              ELSE UpdateOne(wishlists, "user_id", user,
                             [product_ids |->
                                 AddToSet(wishlists[i].product_ids, product_id)])
        /\ last' = Response("200 Added to wishlist")
        /\ UNCHANGED <<stores, gateway, deployment, users, reviews, inflight>>

\* remove_from_wishlist: update_one on the user's wishlist, no upsert.
RemoveFromWishlist(user, product_id) ==
    LET i == FindOne(wishlists, "user_id", user)
    IN  /\ wishlists' =
              IF i = 0 THEN wishlists
              ELSE UpdateOne(wishlists, "user_id", user,
                             [product_ids |->
                                 PullValue(wishlists[i].product_ids, product_id)])
        /\ last' = Response("200 Removed from wishlist")
        /\ UNCHANGED <<stores, gateway, deployment, users, reviews, inflight>>

\* ------------------------------------------------------------ orders
\* `.to_list(50)` of get_orders.
OrdersPage == 50

\* Mutant: the owner is left out of the filter.
OwnOrders_All(coll, user) == coll

\* The documents matching {"user_id": user}, in the order of the collection.
OwnOrders(coll, user) ==
    LET Own(o) == o.user_id = user
    IN  SelectSeq(coll, Own)

\* .sort("created_at", -1): the latest first.
RECURSIVE SortByCreatedAt(_)
SortByCreatedAt(coll) ==
    IF coll = <<>> THEN <<>>
    ELSE LET i == CHOOSE i \in DOMAIN coll :
                      \A j \in DOMAIN coll : coll[j].created_at <= coll[i].created_at
         IN  <<coll[i]>> \o
             SortByCreatedAt(SubSeq(coll, 1, i - 1) \o SubSeq(coll, i + 1, Len(coll)))

\* .to_list(length)
ToList(coll, length) ==
    SubSeq(coll, 1, IF Len(coll) < length THEN Len(coll) ELSE length)

\* get_orders: the caller's orders, the latest first, a page of them.  It
\* writes nothing.
GetOrders(user) ==
    /\ last' = Response([status |-> 200,
                         orders |-> ToList(SortByCreatedAt(OwnOrders(orders, user)),
                                           OrdersPage)])
    /\ UNCHANGED <<stores, gateway, deployment, accounts, inflight>>

\* get_order: find_one({"id": order_id, "user_id": user["id"]}), and 404
\* when there is none.
GetOrder(order_id, user) ==
    LET own == OwnOrders(orders, user)
        i == FindOne(own, "id", order_id)
    IN  /\ last' = IF i = 0
                   THEN Response([status |-> 404, detail |-> "Order not found"])
                   ELSE Response([status |-> 200, order |-> own[i]])
        /\ UNCHANGED <<stores, gateway, deployment, accounts, inflight>>

\* ------------------------------------------------------------ the catalog
\* Prices the catalog may come to show for a product: no route of the
\* backend edits a price; the catalog is edited in the database.
Prices == {300, 320}
CatalogPriceChange(product_id, price) ==
    /\ products' = UpdateOne(products, "id", product_id, [price |-> price])
    /\ UNCHANGED <<carts, payment_transactions, orders, gateway, deployment,
                   accounts, inflight, last>>

\* ------------------------------------------------------------ the gateway
\* The customer pays a Stripe checkout session.
StripeCustomerPays(k) ==
    /\ k \in 1..Len(stripeSessions)
    /\ stripeSessions[k] = "unpaid"
    /\ stripeSessions' = [stripeSessions EXCEPT ![k] = "paid"]
    /\ UNCHANGED <<stores, razorpayOrders, deployment, accounts, inflight, last>>

\* ------------------------------------------------------------ specification
\* The store after seeding and the registration of the users: register
\* inserts an empty cart for each, and each has since added a product to
\* theirs.
Init ==
    /\ products = SeedProducts
    /\ carts = << [user_id |-> "u1",
                    items |-> << Item("prod_victoria_royale", 2) >>],
                   [user_id |-> "u2",
                    items |-> << Item("prod_bleu_sport", 1) >>] >>
    /\ payment_transactions = <<>>
    /\ orders = <<>>
    /\ stripeSessions = <<>>
    /\ razorpayOrders = 0
    /\ env \in Environments
    /\ workers = [w \in Workers |-> "serving"]
    /\ users = << [id |-> "u1", email |-> "u1@example.com",
                    password |-> hash_password("pw1", "salt1")],
                   [id |-> "u2", email |-> "u2@example.com",
                    password |-> hash_password("pw2", "salt2")] >>
    /\ wishlists = << [user_id |-> "u1", product_ids |-> <<>>],
                       [user_id |-> "u2", product_ids |-> <<>>] >>
    /\ reviews = <<>>
    /\ inflight = EmptyBag
    /\ last = Response("none")

Next ==
    \/ \E u \in Buyers, items \in CheckoutItems : CreateStripeCheckout(u, items)
    \/ \E r \in Running : StripeInsertTransaction(r)
    \/ \E s \in StripeRefs : GetCheckoutStatus(s)
    \/ \E r \in Running : PollUpdateTransaction(r)
    \/ \E r \in Running : PollInsertOrder(r)
    \/ \E r \in Running : PollClearCart(r)
    \/ \E body \in WebhookBodies :
          \/ StripeSent(body) /\ StripeWebhook(body, StripeSign(body))
          \/ \E sig \in ForgedSignatures(body) : StripeWebhook(body, sig)
    \/ \E u \in Buyers, items \in CheckoutItems : CreateRazorpayOrder(u, items)
    \/ \E r \in Running : RazorpayInsertTransaction(r)
    \/ \E o \in RazorpayRefs, p \in PaymentIds :
          \E sig \in ProofSignatures(o, p) : VerifyRazorpayPayment(o, p, sig)
    \/ \E r \in Running : VerifyUpdateTransaction(r)
    \/ \E r \in Running : VerifyInsertOrder(r)
    \/ \E r \in Running : VerifyClearCart(r)
    \/ \E k \in 1..MaxTx : StripeCustomerPays(k)

Spec == Init /\ [][Next]_vars

\* A step of a suspended handler.
Continue ==
    \E r \in Running :
        \/ StripeInsertTransaction(r)
        \/ PollUpdateTransaction(r)
        \/ PollInsertOrder(r)
        \/ PollClearCart(r)
        \/ RazorpayInsertTransaction(r)
        \/ VerifyUpdateTransaction(r)
        \/ VerifyInsertOrder(r)
        \/ VerifyClearCart(r)

\* Handlers run one after the other: a suspended handler runs to its return
\* before anything else happens.
NextSeq ==
    \/ inflight = EmptyBag /\ Next
    \/ inflight # EmptyBag /\ Continue
SpecSeq == Init /\ [][NextSeq]_vars

\* A poll the gateway answers.
PollAnswered(session_id) ==
    GetCheckoutStatus(session_id) /\ last' # Response("500 Internal Server Error")

\* The event loop resumes every suspended handler, and the client keeps
\* polling every session.
Fairness ==
    /\ WF_vars(Continue)
    /\ \A s \in StripeRefs : WF_vars(PollAnswered(s))
FairSpec == Init /\ [][Next]_vars /\ Fairness

\* ------------------------------------------------------------ cart specification
\* A store the payment flow has been through: u1 has a pending Stripe
\* transaction, u2 a paid Razorpay transaction with its order.
PendingOfU1 ==
    StripeTransaction([session_id |-> StripeRef(1), user_id |-> "u1",
                       total |-> 600,
                       items_details |-> <<[product_id |-> "prod_victoria_royale",
                                            price |-> 300, quantity |-> 2]>>])
PaidOfU2 ==
    SetPaidRazorpay(<<"pay", 1>>) @@
    RazorpayTransaction([razorpay_order_id |-> RazorpayRef(1), user_id |-> "u2",
                         total |-> 385,
                         items_details |-> <<[product_id |-> "prod_bleu_sport",
                                              price |-> 385, quantity |-> 1]>>])
OrderOfU2 ==
    RazorpayOrder([transaction |-> PaidOfU2,
                   razorpay_order_id |-> RazorpayRef(1),
                   razorpay_payment_id |-> <<"pay", 1>>])

\* u2 has put a product in its cart again since its order.  u1 has the empty
\* cart register created, or none: register inserts the user before the cart
\* (two awaited calls), and login needs only the user.
InitCart ==
    /\ products = SeedProducts
    /\ carts \in { << [user_id |-> "u2", items |-> <<Item("prod_bleu_sport", 1)>>] >>,
                    << [user_id |-> "u2", items |-> <<Item("prod_bleu_sport", 1)>>],
                       [user_id |-> "u1", items |-> <<>>] >> }
    /\ payment_transactions = <<PendingOfU1, PaidOfU2>>
    /\ orders = <<OrderOfU2>>
    /\ stripeSessions = <<"unpaid">>
    /\ razorpayOrders = 1
    /\ env = [RAZORPAY_KEY_ID |-> <<"rzp_key">>, RAZORPAY_KEY_SECRET |-> <<"rzp_secret">>]
    /\ workers = [w \in Workers |-> "serving"]
    /\ users = << [id |-> "u2", email |-> "u2@example.com",
                    password |-> hash_password("pw2", "salt2")],
                   [id |-> "u1", email |-> "u1@example.com",
                    password |-> hash_password("pw1", "salt1")] >>
    /\ wishlists = << [user_id |-> "u2", product_ids |-> <<>>] >>
    /\ reviews = <<>>
    /\ inflight = EmptyBag
    /\ last = Response("none")

\* A cart request of an owner arrives, with a quantity of the given set.
CartRequest(quantities) ==
    \/ \E u \in Buyers, p \in CartProducts, q \in quantities :
          AddToCart(u, Item(p, q))
    \/ \E u \in Buyers, p \in CartProducts, q \in quantities :
          UpdateCartItem(u, Item(p, q))
    \/ \E u \in Buyers, p \in CartProducts : RemoveFromCart(u, p)
    \/ \E u \in Buyers : ClearCart(u)

\* A step of a suspended add_to_cart.
ContinueCart ==
    \/ \E r \in Running : AddInsertCart(r)
    \/ \E r \in Running : AddIncQuantity(r)
    \/ \E r \in Running : AddPushItem(r)

\* Cart requests of one owner running concurrently, each for one unit.
NextCart ==
    \/ CartRequest({1})
    \/ ContinueCart
SpecCart == InitCart /\ [][NextCart]_vars

\* Cart requests run one after the other, with any quantity.
NextCartSeq ==
    \/ inflight = EmptyBag /\ CartRequest(CartQuantities)
    \/ inflight # EmptyBag /\ ContinueCart
SpecCartSeq == InitCart /\ [][NextCartSeq]_vars

\* ------------------------------------------------------------ review specification
\* A step of a suspended create_review.
ContinueReview ==
    \/ \E r \in Running : ReviewFindReviews(r)
    \/ \E r \in Running : ReviewUpdateProduct(r)

\* Reviews are created one after the other.
NextReviewSeq ==
    \/ /\ inflight = EmptyBag
       /\ \E u \in Buyers, p \in ReviewProducts, rating \in Ratings :
             CreateReview(u, p, rating)
    \/ inflight # EmptyBag /\ ContinueReview
SpecReviewSeq == Init /\ [][NextReviewSeq]_vars

\* Reviews as they arrive: a create_review suspended at an await lets other
\* requests run.
NextReview ==
    \/ \E u \in Buyers, p \in ReviewProducts, rating \in Ratings :
          CreateReview(u, p, rating)
    \/ ContinueReview
SpecReview == Init /\ [][NextReview]_vars

\* ------------------------------------------------------------ registration specification
\* A step of a suspended register.
ContinueRegister ==
    \/ \E r \in Running : RegisterInsertUser(r)
    \/ \E r \in Running : RegisterInsertCart(r)
    \/ \E r \in Running : RegisterInsertWishlist(r)

\* Registrations run one after the other.
NextRegisterSeq ==
    \/ inflight = EmptyBag /\ \E email \in Emails : Register(email)
    \/ inflight # EmptyBag /\ ContinueRegister
SpecRegisterSeq == Init /\ [][NextRegisterSeq]_vars

\* Registrations and logins as they arrive: a registration suspended at an
\* await lets other requests run.
NextRegister ==
    \/ \E email \in Emails : Register(email)
    \/ ContinueRegister
    \/ \E email \in Emails, password \in Passwords : Login(email, password)
SpecRegister == Init /\ [][NextRegister]_vars

\* ------------------------------------------------------------ seeding specification
\* A new database and no process started yet.
InitSeed ==
    /\ products = <<>>
    /\ carts = <<>>
    /\ payment_transactions = <<>>
    /\ orders = <<>>
    /\ stripeSessions = <<>>
    /\ razorpayOrders = 0
    /\ env \in Environments
    /\ workers = [w \in Workers |-> "down"]
    /\ users = <<>>
    /\ wishlists = <<>>
    /\ reviews = <<>>
    /\ inflight = EmptyBag
    /\ last = Response("none")

NextSeed ==
    \/ \E w \in Workers : StartupEvent(w)
    \/ \E w \in Workers : SeedData(w)
    \/ \E r \in Running : InsertMany(r)
    \/ \E w \in Workers : Shutdown(w)
SpecSeed == InitSeed /\ [][NextSeed]_vars

\* ------------------------------------------------------------ order specification
\* u2's Razorpay transaction before its payment is confirmed.
PendingOfU2 ==
    RazorpayTransaction([razorpay_order_id |-> RazorpayRef(1), user_id |-> "u2",
                         total |-> 385,
                         items_details |-> <<[product_id |-> "prod_bleu_sport",
                                              price |-> 385, quantity |-> 1]>>])

\* Both users have checked out and neither payment is reconciled yet; the
\* Razorpay keys may have been taken out of the environment since.
InitOrder ==
    /\ products = SeedProducts
    /\ carts = << [user_id |-> "u1",
                    items |-> << Item("prod_victoria_royale", 2) >>],
                   [user_id |-> "u2",
                    items |-> << Item("prod_bleu_sport", 1) >>] >>
    /\ payment_transactions = <<PendingOfU1, PendingOfU2>>
    /\ orders = <<>>
    /\ stripeSessions = <<"unpaid">>
    /\ razorpayOrders = 1
    /\ env \in Environments
    /\ workers = [w \in Workers |-> "serving"]
    /\ users = << [id |-> "u1", email |-> "u1@example.com",
                    password |-> hash_password("pw1", "salt1")],
                   [id |-> "u2", email |-> "u2@example.com",
                    password |-> hash_password("pw2", "salt2")] >>
    /\ wishlists = << [user_id |-> "u1", product_ids |-> <<>>],
                       [user_id |-> "u2", product_ids |-> <<>>] >>
    /\ reviews = <<>>
    /\ inflight = EmptyBag
    /\ last = Response("none")

\* Between checkout and reconciliation the owner goes on using its cart and
\* the catalog is repriced; the payments are reconciled by the poll, the
\* gateway's webhook and the client proof.
NextOrder ==
    \/ \E u \in Buyers : AddToCart(u, Item("prod_bleu_sport", 1))
    \/ \E r \in Running : AddIncQuantity(r)
    \/ \E r \in Running : AddPushItem(r)
    \/ \E u \in Buyers : RemoveFromCart(u, "prod_victoria_royale")
    \/ \E price \in Prices : CatalogPriceChange("prod_victoria_royale", price)
    \/ StripeCustomerPays(1)
    \/ GetCheckoutStatus(StripeRef(1))
    \/ \E r \in Running : PollUpdateTransaction(r)
    \/ \E r \in Running : PollInsertOrder(r)
    \/ \E r \in Running : PollClearCart(r)
    \/ \E body \in WebhookBodies :
          StripeSent(body) /\ StripeWebhook(body, StripeSign(body))
    \/ \E p \in PaymentIds :
          \E sig \in ProofSignatures(RazorpayRef(1), p) :
              VerifyRazorpayPayment(RazorpayRef(1), p, sig)
    \/ \E r \in Running : VerifyUpdateTransaction(r)
    \/ \E r \in Running : VerifyInsertOrder(r)
    \/ \E r \in Running : VerifyClearCart(r)
SpecOrder == InitOrder /\ [][NextOrder]_vars

\* ------------------------------------------------------------ order read specification
\* An order as the reads see it: its id (a uuid4 of its own), its owner and
\* the time it was built.
OrderDoc(k, user) ==
    [id |-> "order_" \o ToString(k), user_id |-> user, created_at |-> k,
     total_amount |-> 300 * k, order_status |-> "confirmed"]

\* Orders of the two users; built by handlers that overlap, they may be
\* stored in another order than they were built in.
OrderPool ==
    {OrderDoc(1, "u1"), OrderDoc(2, "u2"), OrderDoc(3, "u1"), OrderDoc(4, "u2")}
OrderStores ==
    {coll \in UNION {[1..n -> OrderPool] : n \in 0..MaxOrders} :
        \A i, j \in DOMAIN coll : coll[i] = coll[j] => i = j}
        \cup {[k \in 1..(OrdersPage + 1) |-> OrderDoc(k, "u1")]}

\* Order ids a caller may ask for: those of the pool and one no order has.
OrderIds == {"order_" \o ToString(k) : k \in 1..5}

InitOrderRead ==
    /\ products = SeedProducts
    /\ carts = <<>>
    /\ payment_transactions = <<>>
    /\ orders \in OrderStores
    /\ stripeSessions = <<>>
    /\ razorpayOrders = 0
    /\ env = [RAZORPAY_KEY_ID |-> Null, RAZORPAY_KEY_SECRET |-> Null]
    /\ workers = [w \in Workers |-> "serving"]
    /\ users = << [id |-> "u1", email |-> "u1@example.com",
                    password |-> hash_password("pw1", "salt1")],
                   [id |-> "u2", email |-> "u2@example.com",
                    password |-> hash_password("pw2", "salt2")] >>
    /\ wishlists = <<>>
    /\ reviews = <<>>
    /\ inflight = EmptyBag
    /\ last = Response([status |-> 0])

NextOrderRead ==
    \/ \E u \in Users : GetOrders(u)
    \/ \E order_id \in OrderIds, u \in Users : GetOrder(order_id, u)
SpecOrderRead == InitOrderRead /\ [][NextOrderRead]_vars

\* ------------------------------------------------------------ wishlist specification
\* Each wishlist request is one awaited update_one: the requests of the
\* users interleave as whole steps.  u1 starts without a wishlist (InitCart).
NextWishlist ==
    \/ \E u \in Users, p \in WishlistProducts : AddToWishlist(u, p)
    \/ \E u \in Users, p \in WishlistProducts : RemoveFromWishlist(u, p)
SpecWishlist == InitCart /\ [][NextWishlist]_vars

\* ------------------------------------------------------------ properties
\* The orders created from transaction t: those carrying its gateway
\* reference.
OrdersOf(os, t) ==
    { j \in DOMAIN os :
        \/ t.session_id # Null /\ os[j].payment_session_id = t.session_id
        \/ t.razorpay_order_id # Null
           /\ os[j].razorpay_order_id = t.razorpay_order_id }

\* The items of the first cart of a user.
CartItemsOf(cs, user) ==
    cs[FindOne(cs, "user_id", user)].items

\* A reconciliation handler (poll or client proof) is part-way through the
\* transition.
Reconciling ==
    \E r \in Running : r.op \in {"get_checkout_status", "verify_razorpay_payment"}

\* C1: under any interleaving of the reconciliation triggers, at most one
\* Order is ever created for a PaymentTransaction.
C1_AtMostOneOrder ==
    \A i \in DOMAIN payment_transactions :
        Cardinality(OrdersOf(orders, payment_transactions[i])) <= 1

\* The session is paid at the gateway and its transaction is already paid
\* locally, with no handler running: an earlier trigger has reconciled it.
AlreadyReconciled(session_id) ==
    /\ inflight = EmptyBag
    /\ StripeKnows(session_id)
    /\ StripeStatus(session_id) = "paid"
    /\ \E i \in DOMAIN payment_transactions :
          /\ payment_transactions[i].session_id = session_id
          /\ payment_transactions[i].payment_status = "paid"

\* This step is a reconciliation trigger for the session that is answered:
\* a poll, or a webhook of the gateway reporting paid.
TriggerStep(session_id) ==
    \/ PollAnswered(session_id)
    \/ StripeWebhook(WebhookBody(session_id, "paid"),
                     StripeSign(WebhookBody(session_id, "paid")))

\* C2: when handlers run one after the other, a second trigger for a paid
\* session succeeds, changes no transaction, order or cart, and leaves
\* exactly one Order and the transaction paid.
C2_SecondTriggerIsNoOp ==
    [][\A s \in StripeRefs :
          (AlreadyReconciled(s) /\ TriggerStep(s)) =>
              /\ last' \in {Response("200"), WebhookProcessed}
              /\ UNCHANGED <<payment_transactions, orders, carts>>
              /\ \A i \in DOMAIN payment_transactions' :
                    payment_transactions'[i].session_id = s =>
                        /\ payment_transactions'[i].payment_status = "paid"
                        /\ Cardinality(OrdersOf(orders', payment_transactions'[i])) = 1
      ]_vars

\* C3: a webhook with a valid signature reporting paid for a session whose
\* transaction is pending makes the transaction paid, creates exactly one
\* confirmed Order from it, and empties the owner's cart.
C3_WebhookFullTransition ==
    [][\A i \in DOMAIN payment_transactions :
          LET t == payment_transactions[i]
              body == WebhookBody(t.session_id, "paid")
          IN  (/\ t.session_id # Null
               /\ t.payment_status = "pending"
               /\ StripeWebhook(body, StripeSign(body))) =>
                  /\ payment_transactions'[i].payment_status = "paid"
                  /\ \E j \in DOMAIN orders' :
                        /\ OrdersOf(orders', t) = {j}
                        /\ orders'[j].order_status = "confirmed"
                        /\ orders'[j].user_id = t.user_id
                        /\ orders'[j].items = t.items
                        /\ orders'[j].total_amount = t.amount
                  /\ CartItemsOf(carts', t.user_id) = <<>>
      ]_vars

\* C4: whenever no reconciliation handler is part-way through its steps, a
\* PaymentTransaction has an Order if and only if its status is paid.
C4_OrderIffPaid ==
    ~Reconciling =>
        \A i \in DOMAIN payment_transactions :
            (OrdersOf(orders, payment_transactions[i]) # {})
                <=> (payment_transactions[i].payment_status = "paid")

\* The k-th Stripe session is paid at the gateway and has its transaction.
PaidAtGateway(k) ==
    /\ k \in 1..Len(stripeSessions)
    /\ stripeSessions[k] = "paid"
    /\ \E i \in DOMAIN payment_transactions :
          payment_transactions[i].session_id = StripeRef(k)

\* Exactly one Order exists for the k-th Stripe session and the owner's cart
\* is empty.
Reconciled(k) ==
    \E i \in DOMAIN payment_transactions :
        /\ payment_transactions[i].session_id = StripeRef(k)
        /\ Cardinality(OrdersOf(orders, payment_transactions[i])) = 1
        /\ CartItemsOf(carts, payment_transactions[i].user_id) = <<>>

\* C5: if triggers keep being delivered and every handler runs to
\* completion, a transaction whose session the gateway reports paid
\* eventually has exactly one Order and its owner's cart is cleared.
C5_EventuallyReconciled ==
    \A k \in 1..MaxTx : PaidAtGateway(k) ~> Reconciled(k)

\* C6: a paid PaymentTransaction stays paid (and stays the same
\* transaction) in every step of every operation.
C6_PaidStaysPaid ==
    [][\A i \in DOMAIN payment_transactions :
          payment_transactions[i].payment_status = "paid" =>
              /\ i \in DOMAIN payment_transactions'
              /\ payment_transactions'[i].payment_status = "paid"
              /\ payment_transactions'[i].session_id
                    = payment_transactions[i].session_id
              /\ payment_transactions'[i].razorpay_order_id
                    = payment_transactions[i].razorpay_order_id
      ]_vars

\* A paid transaction that a poll reconciled and a webhook then re-observed.
C6_Witness ==
    /\ last = WebhookProcessed
    /\ inflight = EmptyBag
    /\ \E i \in DOMAIN payment_transactions :
          /\ payment_transactions[i].payment_status = "paid"
          /\ OrdersOf(orders, payment_transactions[i]) # {}

\* The gateway's signature for (order, payment) under the deployment's secret.
GatewaySignature(order_id, payment_id) ==
    HmacSha256Hex(env.RAZORPAY_KEY_SECRET, ProofMessage(order_id, payment_id))

\* This step makes transaction t paid on a confirmation of the gateway for
\* t: a poll that read paid for t's session, a webhook of the gateway
\* reporting t's session paid, or a client proof for t's order whose
\* signature is the gateway's.
ConfirmedStep(t) ==
    \/ /\ t.session_id # Null
       /\ StripeKnows(t.session_id)
       /\ StripeStatus(t.session_id) = "paid"
       /\ \/ \E r \in Running :
                /\ r.op = "get_checkout_status"
                /\ r.session_id = t.session_id
                /\ r.payment_status = "paid"
                /\ PollUpdateTransaction(r)
          \/ LET body == WebhookBody(t.session_id, "paid")
             IN  StripeWebhook(body, StripeSign(body))
    \/ /\ t.razorpay_order_id # Null
       /\ \E r \in Running :
             /\ r.op = "verify_razorpay_payment"
             /\ r.razorpay_order_id = t.razorpay_order_id
             /\ r.razorpay_signature
                   = GatewaySignature(r.razorpay_order_id, r.razorpay_payment_id)
             /\ VerifyUpdateTransaction(r)

\* C7: a PaymentTransaction becomes paid only in a step where the gateway
\* confirmed the payment of that transaction, and a poll whose gateway
\* status is not paid changes no transaction, order or cart (nor starts a
\* transition).
C7_PaidOnlyWhenConfirmed ==
    [][/\ \A i \in DOMAIN payment_transactions :
             (/\ payment_transactions[i].payment_status = "pending"
              /\ payment_transactions'[i].payment_status = "paid")
                 => ConfirmedStep(payment_transactions[i])
       /\ \A s \in StripeRefs :
             (/\ StripeKnows(s)
              /\ StripeStatus(s) # "paid"
              /\ GetCheckoutStatus(s))
                 => UNCHANGED <<payment_transactions, orders, carts, inflight>>
      ]_vars

\* A transaction became paid through a client proof carrying the gateway's
\* signature.
C7_Witness ==
    \E i \in DOMAIN payment_transactions :
        /\ payment_transactions[i].payment_status = "paid"
        /\ payment_transactions[i].razorpay_payment_id # Null

\* C8: verify_razorpay_payment with a signature other than the HMAC-SHA256
\* hex digest of `orderId|paymentId` under the shared secret answers 400
\* Invalid payment signature and changes nothing; only a matching signature
\* proceeds to the transition.
C8_InvalidSignatureRejected ==
    [][/\ \A o \in RazorpayRefs, p \in PaymentIds :
             \A sig \in ProofSignatures(o, p) :
                 (/\ env.RAZORPAY_KEY_SECRET # Null
                  /\ sig # GatewaySignature(o, p)
                  /\ VerifyRazorpayPayment(o, p, sig))
                     => /\ last' = Response("400 Invalid payment signature")
                        /\ UNCHANGED <<stores, gateway, inflight>>
       /\ \A r \in BagToSet(inflight') :
             r.op = "verify_razorpay_payment" =>
                 r.razorpay_signature
                     = GatewaySignature(r.razorpay_order_id, r.razorpay_payment_id)
      ]_vars

\* A proof with a wrong signature was refused while a Razorpay transaction
\* was pending.
C8_Witness ==
    /\ last = Response("400 Invalid payment signature")
    /\ \E i \in DOMAIN payment_transactions :
          /\ payment_transactions[i].razorpay_order_id # Null
          /\ payment_transactions[i].payment_status = "pending"

\* C9: a webhook whose signature the adapter rejects changes no
\* transaction, order or cart, and the handler answers with the error
\* indicator.
C9_RejectedWebhookNoChange ==
    [][\A body \in WebhookBodies :
          \A sig \in ForgedSignatures(body) \cup {StripeSign(body)} :
              (HandleWebhook(body, sig).raised /\ StripeWebhook(body, sig))
                  => /\ last' = Response("200 error")
                     /\ UNCHANGED <<stores, gateway, inflight>>
      ]_vars

\* A rejected webhook was answered while a Stripe transaction was pending.
C9_Witness ==
    /\ last = Response("200 error")
    /\ \E i \in DOMAIN payment_transactions :
          /\ payment_transactions[i].session_id # Null
          /\ payment_transactions[i].payment_status = "pending"

\* C10: a checkout initiation whose computed total is <= 0 answers 400 Cart
\* is empty and creates neither a gateway session or order nor a
\* PaymentTransaction.
C10_EmptyCartRejected ==
    [][/\ \A u \in Users, items \in CheckoutItems :
             (/\ PriceItems(items, products).total <= 0
              /\ \/ CreateStripeCheckout(u, items)
                 \/ ~RazorpayNotConfigured(env) /\ CreateRazorpayOrder(u, items))
                 => /\ last' = Response("400 Cart is empty")
                    /\ UNCHANGED <<stores, gateway, inflight>>
       /\ \A r \in BagToSet(inflight') :
             r.op \in {"create_stripe_checkout", "create_razorpay_order"}
                 => r.total > 0
       /\ \A i \in DOMAIN payment_transactions' :
             payment_transactions'[i].amount > 0
      ]_vars

\* A checkout was refused as empty.
C10_Witness ==
    /\ last = Response("400 Cart is empty")
    /\ payment_transactions = <<>>
    /\ stripeSessions = <<>>
    /\ razorpayOrders = 0

\* ------------------------------------------------------------ C11
\* The product is in the catalog.
InCatalog(catalog, product_id) ==
    \E i \in DOMAIN catalog : catalog[i].id = product_id

\* The catalog's unit price of a product that is in it.
UnitPrice(catalog, product_id) ==
    catalog[CHOOSE i \in DOMAIN catalog : catalog[i].id = product_id].price

\* Sum of unit price x quantity over the catalog-present items among the
\* first n of the list.
RECURSIVE TotalOfPresent(_, _, _)
TotalOfPresent(items, catalog, n) ==
    IF n = 0 THEN 0
    ELSE TotalOfPresent(items, catalog, n - 1)
         + (IF InCatalog(catalog, items[n].product_id)
            THEN UnitPrice(catalog, items[n].product_id) * items[n].quantity
            ELSE 0)

\* The priced lines of the catalog-present items among the first n of the
\* list, in the list's order.
RECURSIVE LinesOfPresent(_, _, _)
LinesOfPresent(items, catalog, n) ==
    IF n = 0 THEN <<>>
    ELSE LET before == LinesOfPresent(items, catalog, n - 1)
         IN  IF InCatalog(catalog, items[n].product_id)
             THEN Append(before,
                         [product_id |-> items[n].product_id,
                          price |-> UnitPrice(catalog, items[n].product_id),
                          quantity |-> items[n].quantity])
             ELSE before

\* The list has a catalog-present item of positive price.
HasPricedItem(items, catalog) ==
    \E n \in DOMAIN items :
        /\ InCatalog(catalog, items[n].product_id)
        /\ UnitPrice(catalog, items[n].product_id) > 0

\* Every line of the list has a quantity of at least 1 (the CartItem
\* invariant of a stored cart).
QuantitiesPositive(items) ==
    \A n \in DOMAIN items : items[n].quantity >= 1

\* This step is a checkout initiation for (user, items) on a gateway that is
\* configured and answers.
InitiationAnswered(user, items) ==
    /\ \/ CreateStripeCheckout(user, items)
       \/ ~RazorpayNotConfigured(env) /\ CreateRazorpayOrder(user, items)
    /\ last' # Response("500 Internal Server Error")

\* The step goes on to create the transaction of (user, items): the handler
\* is suspended before its insert with the total and the priced lines of the
\* catalog-present items, and nothing is written yet.
InitiationProceeds(user, items) ==
    /\ \E r \in BagToSet(inflight') :
          /\ inflight' = Suspend(r)
          /\ r.op \in {"create_stripe_checkout", "create_razorpay_order"}
          /\ r.user_id = user
          /\ r.total = TotalOfPresent(items, products, Len(items))
          /\ r.items_details = LinesOfPresent(items, products, Len(items))
    /\ UNCHANGED stores

\* The insert of a checkout initiation appends exactly one transaction:
\* pending, of the handler's user, with its total and its priced lines, and
\* the handler answers 200.
InsertsOneTransaction ==
    \A r \in Running :
        (StripeInsertTransaction(r) \/ RazorpayInsertTransaction(r)) =>
            /\ Len(payment_transactions') = Len(payment_transactions) + 1
            /\ SubSeq(payment_transactions', 1, Len(payment_transactions))
                   = payment_transactions
            /\ LET t == payment_transactions'[Len(payment_transactions')]
               IN  /\ t.payment_status = "pending"
                   /\ t.user_id = r.user_id
                   /\ t.amount = r.total
                   /\ t.items = r.items_details
            /\ last' = Response("200")
            /\ UNCHANGED <<products, carts, orders>>

\* C11 (as stated): every item list with a catalog-present item of positive
\* price is taken on by checkout initiation with total = sum of unit price x
\* quantity over the catalog-present items, and exactly one pending
\* PaymentTransaction with that amount and those lines is created.
C11_PricedListSucceeds ==
    [][/\ \A u \in Users, items \in CheckoutItems :
             (HasPricedItem(items, products) /\ InitiationAnswered(u, items))
                 => InitiationProceeds(u, items)
       /\ InsertsOneTransaction
      ]_vars

\* C11 (amended): the same for every item list whose quantities are all
\* >= 1, on a gateway that is configured and answers.
C11_PositiveListSucceeds ==
    [][/\ \A u \in Users, items \in CheckoutItems :
             (/\ QuantitiesPositive(items)
              /\ HasPricedItem(items, products)
              /\ InitiationAnswered(u, items))
                 => InitiationProceeds(u, items)
       /\ InsertsOneTransaction
      ]_vars

\* A checkout of [unknown x 2, Victoria Royale x 2] has created its pending
\* transaction: amount 600, one line.
C11_Witness ==
    \E i \in DOMAIN payment_transactions :
        /\ payment_transactions[i].payment_status = "pending"
        /\ payment_transactions[i].amount = 600
        /\ Len(payment_transactions[i].items) = 1
        /\ payment_transactions[i].items[1].quantity = 2

\* ------------------------------------------------------------ C12
\* Responses that tell the caller its request went through.
SuccessResponses ==
    { Response("200"), Response("200 success"), WebhookProcessed }

\* No PaymentTransaction carries the reference.
NoTransactionFor(field, ref) ==
    FindOne(payment_transactions, field, ref) = 0

\* C12: a poll, or a client proof with the gateway's signature, whose
\* session / order reference has no local PaymentTransaction is answered
\* with an error and changes no state.
C12_UnknownReferenceNotFound ==
    [][/\ \A s \in StripeRefs :
             (NoTransactionFor("session_id", s) /\ GetCheckoutStatus(s))
                 => /\ last' \notin SuccessResponses
                    /\ UNCHANGED <<stores, gateway, inflight>>
       /\ \A o \in RazorpayRefs, p \in PaymentIds :
             (/\ NoTransactionFor("razorpay_order_id", o)
              /\ env.RAZORPAY_KEY_SECRET # Null
              /\ VerifyRazorpayPayment(o, p, GatewaySignature(o, p)))
                 => /\ last' \notin SuccessResponses
                    /\ UNCHANGED <<stores, gateway, inflight>>
      ]_vars

\* ------------------------------------------------------------ C13 .. C18
\* The lines of the user's cart as get_cart shows them: those of the user's
\* first cart document, none without a document.
ItemsOf(cs, user) ==
    IF \E i \in DOMAIN cs : cs[i].user_id = user
    THEN cs[CHOOSE i \in DOMAIN cs :
               /\ cs[i].user_id = user
               /\ \A j \in 1..(i - 1) : cs[j].user_id # user].items
    ELSE <<>>

\* C13: every line stored in every cart has quantity >= 1.
C13_QuantityAtLeastOne ==
    \A i \in DOMAIN carts :
        \A n \in DOMAIN carts[i].items : carts[i].items[n].quantity >= 1

\* C14: no cart holds two lines for the same product.
C14_OneLinePerProduct ==
    \A i \in DOMAIN carts :
        \A n, m \in DOMAIN carts[i].items :
            carts[i].items[n].product_id = carts[i].items[m].product_id => n = m

\* This step is the write of the add_to_cart handler r.
AddWrites(r) ==
    /\ r.op = "add_to_cart"
    /\ AddInsertCart(r) \/ AddIncQuantity(r) \/ AddPushItem(r)

\* C15: an add of (product, qty) raises the quantity of the product's line by
\* qty when the cart has one, appends the line (product, qty) when it has
\* none (or the owner has no cart), and leaves every other line as it was.
C15_AddIncrementsOrInserts ==
    [][\A r \in Running :
          AddWrites(r) =>
              LET before == ItemsOf(carts, r.user_id)
                  after == ItemsOf(carts', r.user_id)
                  p == r.item.product_id
                  q == r.item.quantity
              IN  /\ last' = Response("200 Item added to cart")
                  /\ \A n \in DOMAIN before :
                        /\ n \in DOMAIN after
                        /\ after[n].product_id = before[n].product_id
                        /\ after[n].quantity =
                              before[n].quantity
                              + (IF before[n].product_id = p THEN q ELSE 0)
                  /\ IF \E n \in DOMAIN before : before[n].product_id = p
                     THEN Len(after) = Len(before)
                     ELSE /\ Len(after) = Len(before) + 1
                          /\ after[Len(after)] = Item(p, q)
      ]_vars

\* An add has returned and left a two-line cart whose first line has
\* quantity 2.
C15_Witness ==
    /\ last = Response("200 Item added to cart")
    /\ inflight = EmptyBag
    /\ Len(ItemsOf(carts, "u1")) = 2
    /\ ItemsOf(carts, "u1")[1].quantity = 2

\* C16: an update of (product, qty) leaves the product's line with quantity
\* qty when qty >= 1 and leaves no line for the product when qty <= 0; the
\* other lines stay as they were, in their order.
C16_UpdateSetsOrDeletes ==
    [][\A u \in Users, p \in CartProducts, q \in CartQuantities :
          UpdateCartItem(u, Item(p, q)) =>
              LET before == ItemsOf(carts, u)
                  after == ItemsOf(carts', u)
              IN  /\ last' = Response("200 Cart updated")
                  /\ IF q >= 1
                     THEN /\ Len(after) = Len(before)
                          /\ \A n \in DOMAIN before :
                                after[n] = IF before[n].product_id = p
                                           THEN Item(p, q) ELSE before[n]
                     ELSE /\ \A n \in DOMAIN after : after[n].product_id # p
                          /\ after = SelectSeq(before,
                                               LAMBDA l : l.product_id # p)
      ]_vars

\* An update has set a line of a two-line cart to 2.
C16_Witness ==
    /\ last = Response("200 Cart updated")
    /\ Len(ItemsOf(carts, "u1")) = 2
    /\ ItemsOf(carts, "u1")[2].quantity = 2

\* C17: remove answers 200 whether or not the line exists and leaves no
\* line for the product (the other lines kept); clear leaves the cart empty;
\* doing either again changes nothing.
C17_RemoveClearIdempotent ==
    [][/\ \A u \in Users, p \in CartProducts :
             RemoveFromCart(u, p) =>
                 LET before == ItemsOf(carts, u)
                     after == ItemsOf(carts', u)
                 IN  /\ last' = Response("200 Item removed from cart")
                     /\ after = SelectSeq(before, LAMBDA l : l.product_id # p)
                     /\ WithItems(carts', OwnCart(carts', u), Pull(after, p))
                           = carts'
       /\ \A u \in Users :
             ClearCart(u) =>
                 /\ last' = Response("200 Cart cleared")
                 /\ ItemsOf(carts', u) = <<>>
                 /\ UpdateOne(carts', "user_id", u, ClearItems) = carts'
      ]_vars

\* A remove has taken one line out of a cart and left the other.
C17_Witness ==
    /\ last = Response("200 Item removed from cart")
    /\ Len(ItemsOf(carts, "u1")) = 1

\* This step is a step of a cart operation of the user.
CartStepOf(user) ==
    \/ \E p \in CartProducts, q \in CartQuantities :
          AddToCart(user, Item(p, q)) \/ UpdateCartItem(user, Item(p, q))
    \/ \E p \in CartProducts : RemoveFromCart(user, p)
    \/ ClearCart(user)
    \/ \E r \in Running : r.user_id = user /\ AddWrites(r)

\* C18: a step of a cart operation of a user changes no PaymentTransaction,
\* no Order and no cart of another owner.
C18_CartOpsFrame ==
    [][\A u \in Users :
          CartStepOf(u) =>
              /\ UNCHANGED <<payment_transactions, orders>>
              /\ \A i \in DOMAIN carts :
                    carts[i].user_id # u =>
                        i \in DOMAIN carts' /\ carts'[i] = carts[i]
      ]_vars

\* u1 has filled and cleared its cart; u2's cart, the transactions and the
\* order are there as before.
C18_Witness ==
    /\ last = Response("200 Cart cleared")
    /\ \E i \in DOMAIN carts : carts[i].user_id = "u1" /\ carts[i].items = <<>>
    /\ ItemsOf(carts, "u2") = <<Item("prod_bleu_sport", 1)>>
    /\ payment_transactions = <<PendingOfU1, PaidOfU2>>
    /\ orders = <<OrderOfU2>>

\* ------------------------------------------------------------ C19
\* t tenths is the mean sum / n to one decimal: no tenth is nearer to it.
IsMeanToOneDecimal(t, sum, n) ==
    /\ 2 * (10 * sum - t * n) <= n
    /\ 2 * (t * n - 10 * sum) <= n

DocsWith(coll, field, value) ==
    {i \in DOMAIN coll : coll[i][field] = value}

\* C20: a registration with an email of an existing user is answered 400
\* and creates no user, cart or wishlist (and goes no further); any other
\* registration inserts one user, then one cart, then one wishlist, and when
\* it returns there is exactly one user with its id and its email and
\* exactly one cart of that user, which is empty.
C20_RegisterCreatesOneEmptyCart ==
    [][/\ \A email \in Emails :
             (DocsWith(users, "email", email) # {} /\ Register(email)) =>
                 /\ last' = Response("400 Email already registered")
                 /\ UNCHANGED <<users, carts, wishlists, inflight>>
       /\ \A r \in Running :
             /\ RegisterInsertUser(r) =>
                   /\ Len(users') = Len(users) + 1
                   /\ UNCHANGED <<carts, wishlists>>
             /\ RegisterInsertCart(r) =>
                   /\ Len(carts') = Len(carts) + 1
                   /\ UNCHANGED <<users, wishlists>>
             /\ RegisterInsertWishlist(r) =>
                   /\ Len(wishlists') = Len(wishlists) + 1
                   /\ UNCHANGED <<users, carts>>
                   /\ last' = Response("200 registered")
                   /\ Cardinality(DocsWith(users', "id", r.id)) = 1
                   /\ Cardinality(DocsWith(users', "email", r.email)) = 1
                   /\ Cardinality(DocsWith(carts', "user_id", r.id)) = 1
                   /\ \A i \in DocsWith(carts', "user_id", r.id) :
                         carts'[i].items = <<>>
      ]_vars

\* A registration has returned: a third user exists, with its empty cart.
C20_Witness ==
    /\ last = Response("200 registered")
    /\ Len(users) = 3
    /\ Cardinality(DocsWith(carts, "user_id", users[3].id)) = 1
    /\ ItemsOf(carts, users[3].id) = <<>>

\* ------------------------------------------------------------ C21
\* C21: login answers 200 with the token of a user that registered with the
\* email and the password exactly when there is such a user, answers 401
\* otherwise, and changes no state.
C21_LoginExactlyWhenRegistered ==
    [][\A email \in Emails, password \in Passwords :
          Login(email, password) =>
              LET registered ==
                      {i \in DOMAIN users :
                          /\ users[i].email = email
                          /\ verify_password(password, users[i].password)}
              IN  /\ UNCHANGED <<stores, gateway, deployment, accounts, inflight>>
                  /\ IF registered # {}
                     THEN \E i \in registered :
                             last' = Response("200 " \o create_token(users[i].id))
                     ELSE last' = Response("401 Invalid email or password")
      ]_vars

\* ------------------------------------------------------------ C28
\* C28: once every register request has returned, no two users have the
\* same email, and every user has exactly one cart and exactly one wishlist.
C28_OneUserPerEmail ==
    inflight = EmptyBag =>
        /\ \A i, j \in DOMAIN users :
              users[i].email = users[j].email => i = j
        /\ \A i \in DOMAIN users :
              /\ Cardinality(DocsWith(carts, "user_id", users[i].id)) = 1
              /\ Cardinality(DocsWith(wishlists, "user_id", users[i].id)) = 1

\* ------------------------------------------------------------ C27
\* C27: once every create_review request has returned, each product that
\* has reviews stores their number as reviews_count and their rounded mean
\* as rating.
C27_ConcurrentReviewsAggregate ==
    inflight = EmptyBag =>
        \A i \in DOMAIN products :
            LET ratings == RatingsOf(reviews, products[i].id)
            IN  ratings # <<>> =>
                    /\ products[i].reviews_count = Len(ratings)
                    /\ IsMeanToOneDecimal(products[i].rating,
                                          Sum(ratings), Len(ratings))

\* ------------------------------------------------------------ C22
\* C22: at any time the catalog holds no seed product twice, and once a
\* process serves and no seeding is under way it holds each seed product
\* exactly once and nothing else; a seed call on a non-empty catalog inserts
\* nothing.
C22_SeedingIdempotent ==
    /\ [](\A i \in DOMAIN SeedProducts :
             Cardinality(DocsWith(products, "id", SeedProducts[i].id)) <= 1)
    /\ []((inflight = EmptyBag /\ \E w \in Workers : workers[w] = "serving")
             => products = SeedProducts)
    /\ [][\A w \in Workers :
             (Len(products) > 0 /\ SeedData(w)) =>
                 UNCHANGED <<products, inflight>>]_vars

\* ------------------------------------------------------------ C23
\* The gateway has created the session or order the transaction refers to.
CreatedAtGateway(t) ==
    IF t.payment_method = "stripe"
    THEN StripeKnows(t.session_id)
    ELSE \E k \in 1..razorpayOrders : t.razorpay_order_id = RazorpayRef(k)

\* C23: every stored transaction refers to a session or order the gateway
\* has created, and the gateway had created it before the insert of the
\* transaction; a checkout initiation that reaches the gateway and gets no
\* session or order from it answers with the error, goes no further and
\* writes no transaction.
C23_GatewayBeforeLedger ==
    /\ [](\A i \in DOMAIN payment_transactions :
             CreatedAtGateway(payment_transactions[i]))
    /\ [][/\ \A r \in Running :
               /\ StripeInsertTransaction(r) => CreatedAtGateway(StripeTransaction(r))
               /\ RazorpayInsertTransaction(r) =>
                     CreatedAtGateway(RazorpayTransaction(r))
          /\ \A u \in Buyers, items \in CheckoutItems :
               (/\ \/ CreateStripeCheckout(u, items)
                   \/ (~RazorpayNotConfigured(env) /\ CreateRazorpayOrder(u, items))
                /\ ~CartIsEmpty(PriceItems(items, products).total)
                /\ UNCHANGED gateway) =>
                   /\ last' = Response("500 Internal Server Error")
                   /\ UNCHANGED <<stores, inflight>>
         ]_vars

\* A transaction of a created session is stored, and a later initiation has
\* been answered with the gateway's failure.
C23_Witness ==
    /\ Len(payment_transactions) = 1
    /\ CreatedAtGateway(payment_transactions[1])
    /\ last = Response("500 Internal Server Error")

\* ------------------------------------------------------------ C24
\* C24: when a reconciliation clears the cart, the order it has built from
\* its transaction is in the order store.
C24_OrderBeforeCartClear ==
    [][\A r \in Running :
          (PollClearCart(r) \/ VerifyClearCart(r)) =>
              \E j \in DOMAIN orders :
                  orders[j] = IF r.op = "get_checkout_status"
                              THEN StripeOrder(r) ELSE RazorpayOrder(r)
      ]_vars

\* A reconciliation has returned: the owner's cart is empty and the order
\* of its transaction is stored.
C24_Witness ==
    /\ ~Reconciling
    /\ Len(payment_transactions) = 1
    /\ OrdersOf(orders, payment_transactions[1]) # {}
    /\ CartItemsOf(carts, payment_transactions[1].user_id) = <<>>

\* ------------------------------------------------------------ C25
\* The stored transaction a reconciliation handler is about.
StoredTransaction(r) ==
    IF r.op = "get_checkout_status"
    THEN payment_transactions[FindOne(payment_transactions, "session_id",
                                      r.session_id)]
    ELSE payment_transactions[FindOne(payment_transactions, "razorpay_order_id",
                                      r.razorpay_order_id)]

\* C25: the insert of a reconciliation appends one order with the items,
\* the amount and the owner of the stored transaction, as they were written
\* at checkout, and order_status confirmed, whatever the cart and the catalog
\* have become since; the cart-clearing step empties the first cart of the
\* transaction's owner and leaves every other cart as it is.
C25_OrderFromSnapshot ==
    [][\A r \in Running :
          /\ (PollInsertOrder(r) \/ VerifyInsertOrder(r)) =>
                LET t == StoredTransaction(r)
                    o == orders'[Len(orders')]
                IN  /\ orders' = Append(orders, o)
                    /\ t \in {[PendingOfU1 EXCEPT !.payment_status = "paid"],
                              PaidOfU2}
                    /\ o.items = t.items
                    /\ o.total_amount = t.amount
                    /\ o.user_id = t.user_id
                    /\ o.order_status = "confirmed"
                    /\ UNCHANGED carts
          /\ (PollClearCart(r) \/ VerifyClearCart(r)) =>
                LET t == StoredTransaction(r)
                IN  carts' = [k \in DOMAIN carts |->
                                 IF k = FindOne(carts, "user_id", t.user_id)
                                 THEN [carts[k] EXCEPT !.items = <<>>]
                                 ELSE carts[k]]
      ]_vars

\* u1's order of 600 is stored although Victoria Royale has been repriced
\* and u1's cart has changed since the checkout; u2's cart is as it was.
C25_Witness ==
    /\ \E j \in DOMAIN orders :
          /\ orders[j].user_id = "u1"
          /\ orders[j].total_amount = 600
          /\ orders[j].items = PendingOfU1.items
    /\ \E i \in DOMAIN products :
          products[i].id = "prod_victoria_royale" /\ products[i].price = 320
    /\ HasLine(CartItemsOf(carts, "u1"), "prod_bleu_sport")
    /\ CartItemsOf(carts, "u2") = <<Item("prod_bleu_sport", 1)>>

\* ------------------------------------------------------------ C26
\* C26: every step leaves every stored order in the store and as it is:
\* owner, items, total amount, payment status and order status.
C26_OrdersImmutable ==
    [][\A j \in DOMAIN orders :
          /\ j \in DOMAIN orders'
          /\ orders'[j] = orders[j]
      ]_vars

\* The orders of u1 and of u2 are stored, and a webhook of the gateway has
\* been processed since.
C26_Witness ==
    /\ \E j, k \in DOMAIN orders :
          orders[j].user_id = "u1" /\ orders[k].user_id = "u2"
    /\ inflight = EmptyBag
    /\ last = WebhookProcessed

\* ------------------------------------------------------------ C29
\* The orders of the store that belong to the user.
OrdersOfUser(user) == {orders[j] : j \in {k \in DOMAIN orders : orders[k].user_id = user}}

\* What get_order answers on a store holding the caller's orders only.
AnswerOnOwnStore(order_id, user) ==
    IF \E o \in OrdersOfUser(user) : o.id = order_id
    THEN [status |-> 200,
          order |-> CHOOSE o \in OrdersOfUser(user) : o.id = order_id]
    ELSE [status |-> 404, detail |-> "Order not found"]

\* C29 (as stated): get_orders returns exactly the caller's orders, and
\* get_order answers what it would answer on a store holding the caller's
\* orders only: 404 Order not found for another user's order as for an id no
\* order has.
C29_OwnOrdersExactly ==
    [][/\ \A u \in Users :
             GetOrders(u) =>
                 /\ last'.status = 200
                 /\ {last'.orders[j] : j \in DOMAIN last'.orders} = OrdersOfUser(u)
                 /\ Len(last'.orders) = Cardinality(OrdersOfUser(u))
       /\ \A order_id \in OrderIds, u \in Users :
             GetOrder(order_id, u) => last' = AnswerOnOwnStore(order_id, u)
      ]_vars

\* C29: get_orders returns the caller's orders and no other, all of them up
\* to 50 and the 50 latest beyond; get_order answers what it would answer on
\* a store holding the caller's orders only.
C29_OwnOrdersUpToPage ==
    [][/\ \A u \in Users :
             GetOrders(u) =>
                 LET returned == {last'.orders[j] : j \in DOMAIN last'.orders}
                 IN  /\ last'.status = 200
                     /\ returned \subseteq OrdersOfUser(u)
                     /\ Len(last'.orders) = Cardinality(returned)
                     /\ Cardinality(returned) =
                            (IF Cardinality(OrdersOfUser(u)) < 50
                             THEN Cardinality(OrdersOfUser(u)) ELSE 50)
                     /\ \A o \in OrdersOfUser(u) \ returned, q \in returned :
                            o.created_at <= q.created_at
       /\ \A order_id \in OrderIds, u \in Users :
             GetOrder(order_id, u) => last' = AnswerOnOwnStore(order_id, u)
      ]_vars

\* u1 has asked for order_2, which is u2's, in a store that holds it, and
\* has been answered 404.
C29_Witness ==
    /\ \E j \in DOMAIN orders : orders[j].id = "order_2" /\ orders[j].user_id = "u2"
    /\ \E j \in DOMAIN orders : orders[j].user_id = "u1"
    /\ last = [status |-> 404, detail |-> "Order not found"]

\* ------------------------------------------------------------ C30
\* The product ids of the user's wishlist, or none when it has no wishlist.
WishlistOf(coll, user) ==
    IF FindOne(coll, "user_id", user) = 0 THEN <<>>
    ELSE coll[FindOne(coll, "user_id", user)].product_ids

\* The wishlist holds the product.
Wished(coll, user, p) ==
    \E i \in DOMAIN WishlistOf(coll, user) : WishlistOf(coll, user)[i] = p

\* C30: no wishlist holds a product id twice.  An add of a product the
\* wishlist holds changes nothing; any other add puts the product at the
\* end of the wishlist, which is created when the user has none; after an
\* add the product is there.  A remove takes the product out and keeps the
\* other products in their order; a remove of a product that is not there
\* (as after a remove) changes nothing.  No request touches the wishlist of
\* another user.
C30_WishlistIsSet ==
    /\ [](\A k \in DOMAIN wishlists :
             \A i, j \in DOMAIN wishlists[k].product_ids :
                 wishlists[k].product_ids[i] = wishlists[k].product_ids[j] => i = j)
    /\ [][\A u \in Users, p \in WishlistProducts :
             /\ AddToWishlist(u, p) =>
                   /\ Wished(wishlists, u, p) => wishlists' = wishlists
                   /\ ~Wished(wishlists, u, p) =>
                         WishlistOf(wishlists', u) = Append(WishlistOf(wishlists, u), p)
                   /\ Wished(wishlists', u, p)
                   /\ Cardinality(DocsWith(wishlists', "user_id", u)) = 1
                   /\ \A v \in Users \ {u} :
                         WishlistOf(wishlists', v) = WishlistOf(wishlists, v)
             /\ RemoveFromWishlist(u, p) =>
                   /\ ~Wished(wishlists, u, p) => wishlists' = wishlists
                   /\ ~Wished(wishlists', u, p)
                   /\ \A q \in WishlistProducts \ {p} :
                         Wished(wishlists', u, q) = Wished(wishlists, u, q)
                   /\ Len(WishlistOf(wishlists', u)) =
                         Len(WishlistOf(wishlists, u))
                             - (IF Wished(wishlists, u, p) THEN 1 ELSE 0)
                   /\ \A v \in Users \ {u} :
                         WishlistOf(wishlists', v) = WishlistOf(wishlists, v)
         ]_vars

\* u1, who had no wishlist, has one with two products, and the last
\* request was an add.
C30_Witness ==
    /\ Len(WishlistOf(wishlists, "u1")) = 2
    /\ Wished(wishlists, "u1", "prod_bleu_sport")
    /\ last = Response("200 Added to wishlist")

====
